---- MODULE Spec2Model ----
(***************************************************************************)
(* Model of the concurrent, retrying, hash-verifying file downloader of    *)
(* Modpack-BuildTools (ConcurrentRetryDownloader in util/downloaders.js,   *)
(* its hash functions in util/hashes.js and the DOWNLOADER instance of     *)
(* gulpfile.js).                                                           *)
(*                                                                         *)
(* JavaScript runs every callback to completion, so each action below is   *)
(* one callback: the call of download(), the .then/.catch handlers of one  *)
(* request() and the setTimeout callback that starts the next attempt.     *)
(*                                                                         *)
(* Beside the downloader (Spec, FairSpec, RerunSpec, SaveSpec) the module  *)
(* holds the hash functions called alone (HashSpec), the constructor       *)
(* (ConstructorSpec), retryRequest (RetrySpec), the series of tasks of     *)
(* gulpfile.js (PipelineSpec) and deployCurseForge (CurseForgeSpec); each  *)
(* specification leaves the variables of the others at rest.               *)
(***************************************************************************)
EXTENDS Integers, Sequences, FiniteSets, TLC

\* ---------------------------------------------------------------- bounds
MaxFiles          == 3   \* longest batch handed to download()
MaxRetriesOpt     == 2   \* largest options.maxRetries tried
MaxConcurrencyOpt == 2   \* largest options.concurrency tried
MaxListenerThrows == 1   \* how often the "complete" listener may throw in a run
MaxAttempts       == 6   \* most requests one run can make: files x maxRetries
MaxBufferLen      == 2   \* longest buffer handed to the hash functions alone
MaxRequests       == 6   \* most request() calls followed in one retryRequest()
MaxResponseId     == 2   \* largest file id CurseForge answers an upload with

\* ------------------------------------------------------ program constants
DefaultMaxRetries  == 5
DefaultReadTimeout == 30000
ConfiguredConcurrency == 50   \* downloaderConcurrency of config.default.js
DefaultConcurrency == 5
MurmurSeed         == 1

\* ------------------------------------------------------------ hash module
\* Payloads are byte sequences.
B1 == <<72, 101>>
B2 == <<72, 32, 101>>
B3 == <<108>>
Buffers == {B1, B2, B3}

MURMUR_SKIP_BYTES_NoSpace == {9, 10, 13}   \* the space is hashed
MURMUR_SKIP_BYTES == {9, 10, 13, 32}

RECURSIVE StripSkipBytes(_)
StripSkipBytes(buf) ==
    IF buf = <<>> THEN <<>>
    ELSE IF Head(buf) \in MURMUR_SKIP_BYTES
         THEN StripSkipBytes(Tail(buf))
         ELSE <<Head(buf)>> \o StripSkipBytes(Tail(buf))

\* The third-party digest routines are collision-free on the bounded
\* payloads: a digest is the algorithm name and the bytes that were fed in.
murmurhashV2(str, seed) == [alg |-> "murmurhashV2", seed |-> seed, of |-> str]
sha1lib(bytes)          == [alg |-> "sha1", seed |-> 0, of |-> bytes]

murmurhash(inputBuffer) == murmurhashV2(StripSkipBytes(inputBuffer), MurmurSeed)
sha1(inputBuffer)       == sha1lib(inputBuffer)

HashFuncIds == {"murmurhash", "sha1"}
hashFuncs(id, buffer) ==
    IF id = "murmurhash" THEN murmurhash(buffer) ELSE sha1(buffer)

\* ----------------------------------------------------------------- errors
NoError == [kind |-> "none", at |-> 0]
TransportError(n)   == [kind |-> "transport", at |-> n]
NoHashFuncError(n)  == [kind |-> "nohashfunc", at |-> n]
MismatchError(n)    == [kind |-> "mismatch", at |-> n]
ListenerError(n)    == [kind |-> "listener", at |-> n]

\* __checkHash(buffer, hashDef): the error it throws, NoError when it
\* returns true.  hashDef.hashes is an array (isArray) or a single value.
ArrayIncludesFirst(items, sum) == items # <<>> /\ items[1] = sum
ArrayIncludes(items, sum) == \E i \in 1..Len(items) : items[i] = sum
\* `hashDef.hashes == sum`: a scalar compares by value, an array by its
\* toString(), which equals one digest only for a one-element array.
LooseEquals(hashes, sum) == Len(hashes.items) = 1 /\ hashes.items[1] = sum

CheckHash(buffer, hashDef, n) ==
    IF hashDef.id \notin HashFuncIds THEN NoHashFuncError(n)
    ELSE LET sum == hashFuncs(hashDef.id, buffer) IN
         IF (hashDef.hashes.isArray /\ ArrayIncludes(hashDef.hashes.items, sum))
            \/ LooseEquals(hashDef.hashes, sum)
         THEN NoError
         ELSE MismatchError(n)

\* fileDef.hashes.forEach(hashInfo => __checkHash(buffer, hashInfo)):
\* the first error thrown, NoError when every check returned.
CheckHashesFirstOnly(buffer, hashDefs, n) ==
    IF hashDefs = <<>> THEN NoError ELSE CheckHash(buffer, Head(hashDefs), n)
RECURSIVE CheckHashes(_, _, _)
CheckHashes(buffer, hashDefs, n) ==
    IF hashDefs = <<>> THEN NoError
    ELSE LET e == CheckHash(buffer, Head(hashDefs), n) IN
         IF e # NoError THEN e ELSE CheckHashes(buffer, Tail(hashDefs), n)


\* ------------------------------------------------------------- file defs
\* A HashDef is {id, hashes}; hashes is an array or a single value.
HashArray(items) == [isArray |-> TRUE, items |-> items]
HashValue(v)     == [isArray |-> FALSE, items |-> <<v>>]

\* A FileDef is {url, hashes?}; hasHashes is the truthiness of fileDef.hashes.
FilePlain == [url |-> "plain", hasHashes |-> FALSE, hashes |-> <<>>]
FileDown  == [url |-> "down", hasHashes |-> FALSE, hashes |-> <<>>]
FileGood  == [url |-> "good", hasHashes |-> TRUE,
              hashes |-> << [id |-> "murmurhash", hashes |-> HashValue(murmurhash(B1))] >>]
FileUnk   == [url |-> "unk", hasHashes |-> TRUE,
              hashes |-> << [id |-> "md5", hashes |-> HashValue(sha1(B1))] >>]
FileTwo   == [url |-> "two", hasHashes |-> TRUE,
              hashes |-> << [id |-> "sha1", hashes |-> HashArray(<<sha1(B2), sha1(B3)>>)],
                            [id |-> "murmurhash", hashes |-> HashValue(murmurhash(B1))] >>]
FileDefs == {FilePlain, FileDown, FileGood, FileUnk, FileTwo}

\* The transport: what request(url) can do on one attempt.  ok = FALSE is a
\* rejection (connection error, timeout), ok = TRUE resolves with body.
Failure   == [ok |-> FALSE, body |-> <<>>]
Body(buf) == [ok |-> TRUE, body |-> buf]
Net(url) ==
    CASE url = "plain" -> {Failure, Body(B1)}
      [] url = "down"  -> {Failure}
      [] url = "good"  -> {Body(B2)}
      [] url = "unk"   -> {Body(B1)}
      [] url = "two"   -> {Body(B2), Body(B3)}

\* A batch names each URL once.
Batches ==
    UNION { {b \in [1..n -> FileDefs] : \A i, j \in 1..n : b[i] = b[j] => i = j}
            : n \in 0..MaxFiles }

\* ------------------------------------------------------------ constructor
OptionSet == [maxRetries : 1..MaxRetriesOpt,
              concurrency : 1..MaxConcurrencyOpt,
              checkHashes : BOOLEAN]

\* `options.f || d`
OrDefault(opts, f, d) ==
    IF f \in DOMAIN opts /\ opts[f] # 0 THEN opts[f] ELSE d

Constructor(opts) ==
    [maxRetries  |-> OrDefault(opts, "maxRetries", DefaultMaxRetries),
     readTimeout |-> OrDefault(opts, "readTimeout", DefaultReadTimeout),
     concurrency |-> OrDefault(opts, "concurrency", DefaultConcurrency),
     checkHashes |-> IF "checkHashes" \in DOMAIN opts THEN opts.checkHashes ELSE TRUE]

\* ------------------------------------------------------------------ state
VARIABLES
    downloader,            \* the ConcurrentRetryDownloader instance (this)
    files,                 \* argument of download()
    promise,               \* state of the promise download() returned
    rejection,             \* the value it was rejected with
    st,                    \* per file: queued, fetching, waiting, resolved, rejected
    counter,               \* per file: `counter` of the running retry()
    countDownloadedFiles,  \* the shared counter of download()
    events,                \* per file: what happened to it, in order
    completed,             \* the "complete" events emitted, in order
    failOrder,             \* the files whose promise was rejected, in order
    throwsLeft,            \* listener failures still allowed in this run
    firstRun,              \* how an earlier download() of the same batch ended
    inputBuffer,           \* hashes.js / __checkHash: the buffer argument
    hashDef,               \* __checkHash: the hashDef argument
    hashResult,            \* what the hash call returned or threw
    rrMaxRetries,          \* retryRequest: its maxRetries argument
    rrCounter,             \* retryRequest: `counter` of the running retry()
    rrRequests,            \* retryRequest: request() calls made so far
    rrErrors,              \* retryRequest: the errors of the failed attempts
    rrPromise,             \* retryRequest: state of the promise it returned
    rrReason,              \* retryRequest: what it was rejected with
    MODPACK_MANIFEST,      \* what the tasks read from ./modpack/manifest.json
    current,               \* index in the series of the task that is running
    stage,                 \* which callback of that task is awaited
    seriesState,           \* running, finished, failed (an error was signalled), crashed
    seriesError,           \* the error the series ended with
    cbCalls,               \* per task: how often its cb was called
    steps,                 \* the processing steps that ran, in order
    failedBatch,           \* the first failed download batch: its error, and Len(steps) then
    callbackArgs,          \* downloadAndSaveFiles: the arguments its callback was called with
    options,               \* argument of new ConcurrentRetryDownloader(options)
    env,                   \* deployCurseForge: which variables of process.env are set
    minecraftVersion,      \* global.MODPACK_MANIFEST.minecraft.version
    cfStage,               \* deployCurseForge: where the async function stands
    fileIndex,             \* deployCurseForge: position in the loop over the two archives
    clientFileID,          \* deployCurseForge: its variable, 0 while undefined
    uploads,               \* deployCurseForge: the upload requests made, in order
    responses,             \* deployCurseForge: the answers to the uploads, in order
    cfCallbacks            \* deployCurseForge: the arguments cb was called with

dlVars == <<downloader, files, promise, rejection, st, counter,
            countDownloadedFiles, events, completed, failOrder, throwsLeft>>
hashVars == <<inputBuffer, hashDef, hashResult>>
rrVars == <<rrMaxRetries, rrCounter, rrRequests, rrErrors, rrPromise, rrReason>>
pipeVars == <<MODPACK_MANIFEST, current, stage, seriesState, seriesError,
              cbCalls, steps, failedBatch>>
cfVars == <<env, minecraftVersion, cfStage, fileIndex, clientFileID, uploads,
            responses, cfCallbacks>>
\* What the specifications of the downloader, the hash functions,
\* retryRequest and the series all leave alone.
restVars == <<callbackArgs, options, cfVars>>
vars == <<dlVars, firstRun, restVars, hashVars, rrVars, pipeVars>>

total == Len(files)
Ids   == 1..total

Ev(ev, n, err) == [ev |-> ev, n |-> n, err |-> err]
NoRejection == [fileDef |-> 0, error |-> NoError]

InFlight == {r \in Ids : st[r] \in {"fetching", "waiting"}}

\* request(fileDef.url, opts) of file r is pending with its handlers attached.
FetchingUnlessFailed(r) == st[r] = "fetching" /\ promise # "rejected"
Fetching(r) == st[r] = "fetching"

Queued   == {r \in Ids : st[r] = "queued"}

Min(a, b) == IF a < b THEN a ELSE b

\* No download() of the batch has ended before.
NoRun == [ran |-> FALSE, completed |-> {}, failed |-> {}, threw |-> FALSE]

\* The hash functions have not been called.
NoDigest == [alg |-> "none", seed |-> 0, of |-> <<>>]
NoHashResult == [op |-> "none", error |-> NoError, murmurhash |-> NoDigest,
                 sha1 |-> NoDigest]
HashIdle ==
    /\ inputBuffer = <<>>
    /\ hashDef = [id |-> "sha1", hashes |-> HashArray(<<>>)]
    /\ hashResult = NoHashResult

\* retryRequest has not been called.
RetryRequestIdle ==
    /\ rrMaxRetries = DefaultMaxRetries
    /\ rrCounter = 0
    /\ rrRequests = 0
    /\ rrErrors = <<>>
    /\ rrPromise = "none"
    /\ rrReason = "none"

\* The series of the default task has not been started.
NoFailure == [error |-> "none", at |-> 0]
PipelineIdle ==
    /\ MODPACK_MANIFEST = [forge |-> TRUE, profile |-> TRUE, version |-> TRUE,
                           server |-> TRUE, files |-> 0]
    /\ current = 0
    /\ stage = "idle"
    /\ seriesState = "idle"
    /\ seriesError = "none"
    /\ cbCalls = <<>>
    /\ steps = <<>>
    /\ failedBatch = NoFailure

\* No ConcurrentRetryDownloader is constructed apart from DOWNLOADER.
NoOptions == [f \in {} |-> 0]
ConstructorIdle == options = NoOptions

\* deployCurseForge has not been called.
CurseForgeIdle ==
    /\ env = [CURSEFORGE_API_TOKEN |-> FALSE, CURSEFORGE_PROJECT_ID |-> FALSE,
              CLIENT_ARCHIVE |-> FALSE, SERVER_ARCHIVE |-> FALSE]
    /\ minecraftVersion = "1.12.2"
    /\ cfStage = "idle"
    /\ fileIndex = 0
    /\ clientFileID = 0
    /\ uploads = <<>>
    /\ responses = <<>>
    /\ cfCallbacks = <<>>

\* DOWNLOADER is left alone.
DownloaderIdle ==
    /\ downloader = Constructor([checkHashes |-> TRUE])
    /\ files = <<>>
    /\ promise = "none"
    /\ rejection = NoRejection
    /\ st = <<>>
    /\ counter = <<>>
    /\ countDownloadedFiles = 0
    /\ events = <<>>
    /\ completed = <<>>
    /\ failOrder = <<>>
    /\ throwsLeft = 0
    /\ firstRun = NoRun
    /\ callbackArgs = <<>>

\* DOWNLOADER is constructed, download() not yet called.
DownloaderInit ==
    /\ \E opts \in OptionSet : downloader = Constructor(opts)
    /\ files \in Batches
    /\ Len(files) * downloader.maxRetries <= MaxAttempts
    /\ promise = "none"
    /\ rejection = NoRejection
    /\ st = [r \in 1..Len(files) |-> "queued"]
    /\ counter = [r \in 1..Len(files) |-> 0]
    /\ countDownloadedFiles = 0
    /\ events = [r \in 1..Len(files) |-> <<>>]
    /\ completed = <<>>
    /\ failOrder = <<>>
    /\ throwsLeft = MaxListenerThrows

Init ==
    /\ DownloaderInit
    /\ firstRun = NoRun
    /\ callbackArgs = <<>>
    /\ HashIdle
    /\ RetryRequestIdle
    /\ PipelineIdle
    /\ ConstructorIdle
    /\ CurseForgeIdle

\* The mapper of Promise.map for one file: emit "start", then retry() makes
\* the first request.
StartEventsSilent == <<Ev("request", 1, "none")>>   \* __emitStart left out
StartEvents == <<Ev("start", 0, "none"), Ev("request", 1, "none")>>

\* Promise.map calls the mapper for at most `concurrency` files at once.
InitialWindowAll == 1..total   \* as Promise.all would: every file at once
InitialWindow == 1..Min(downloader.concurrency, total)

\* Promise.map over no files is fulfilled at once.
PromiseOfMapPending == "pending"   \* settled only when a file settles
PromiseOfMap == IF total = 0 THEN "resolved" ELSE "pending"

\* download(files)
Download ==
    /\ promise = "none"
    /\ promise' = PromiseOfMap
    /\ st' = [r \in Ids |-> IF r \in InitialWindow THEN "fetching" ELSE "queued"]
    /\ counter' = [r \in Ids |-> IF r \in InitialWindow THEN 1 ELSE 0]
    /\ events' = [r \in Ids |-> IF r \in InitialWindow THEN StartEvents ELSE <<>>]
    /\ UNCHANGED <<downloader, files, rejection, countDownloadedFiles,
                   completed, failOrder, throwsLeft>>

\* The .catch handler of one attempt of file r; log is r's events so far.
ShouldRejectLate(r) == counter[r] > downloader.maxRetries
ShouldReject(r) == counter[r] >= downloader.maxRetries

\* Promise.map is rejected by the first mapper promise that is rejected;
\* rejecting a settled promise changes nothing.
RejectionLastWins(r, error) == [fileDef |-> r, error |-> error]
RejectionAfter(r, error) ==
    IF promise = "pending" THEN [fileDef |-> r, error |-> error] ELSE rejection

\* __emitRetry(fileDef, error, counter): the attempt number it carries.
RetryAttemptNext(r) == counter[r] + 1
RetryAttempt(r) == counter[r]

CatchHandler(r, error, log) ==
    IF ShouldReject(r)
    THEN /\ st' = [st EXCEPT ![r] = "rejected"]
         /\ events' = [events EXCEPT ![r] = Append(log, Ev("reject", counter[r], error.kind))]
         /\ failOrder' = Append(failOrder, r)
         /\ promise' = IF promise = "pending" THEN "rejected" ELSE promise
         /\ rejection' = RejectionAfter(r, error)
         /\ UNCHANGED counter
    ELSE /\ st' = [st EXCEPT ![r] = "waiting"]
         /\ events' = [events EXCEPT ![r] = Append(log, Ev("retry", RetryAttempt(r), error.kind))]
         /\ UNCHANGED <<counter, failOrder, promise, rejection>>

\* request(fileDef.url, opts) rejected.
RequestFailed(r) ==
    /\ Fetching(r)
    /\ Failure \in Net(files[r].url)
    /\ CatchHandler(r, TransportError(counter[r]), events[r])
    /\ UNCHANGED <<downloader, files, countDownloadedFiles, completed, throwsLeft>>

\* retry(counter) { counter++ ... }: counter is a parameter of the closure
\* of file r.
CounterShared(r) == [x \in Ids |-> counter[x] + 1]   \* one counter for the batch
CounterAfterRetry(r) == [counter EXCEPT ![r] = counter[r] + 1]

\* setTimeout(() => retry(counter), 1000) fired.
Retry(r) ==
    /\ st[r] = "waiting"
    /\ counter' = CounterAfterRetry(r)
    /\ st' = [st EXCEPT ![r] = "fetching"]
    /\ events' = [events EXCEPT ![r] = Append(events[r], Ev("request", counter[r] + 1, "none"))]
    /\ UNCHANGED <<downloader, files, promise, rejection, countDownloadedFiles,
                   completed, failOrder, throwsLeft>>

\* The hashes the .then handler checks for file r.
HashesToCheckAlways(r) ==
    IF files[r].hasHashes THEN files[r].hashes ELSE <<>>
HashesToCheck(r) ==
    IF downloader.checkHashes /\ files[r].hasHashes THEN files[r].hashes ELSE <<>>

\* request() resolved with buffer, but a hash check threw.
HashCheckFailed(r, buffer) ==
    /\ Fetching(r)
    /\ Body(buffer) \in Net(files[r].url)
    /\ CheckHashes(buffer, HashesToCheck(r), counter[r]) # NoError
    /\ CatchHandler(r, CheckHashes(buffer, HashesToCheck(r), counter[r]), events[r])
    /\ UNCHANGED <<downloader, files, countDownloadedFiles, completed, throwsLeft>>

\* Promise.map is fulfilled once every mapper promise is.
LastFileResolved(r) == r = total   \* fulfilled by the last file of the array
AllOthersResolved(r) == \A x \in Ids \ {r} : st[x] = "resolved"

CompleteEvent(r, buffer) ==
    [file |-> r, index |-> countDownloadedFiles, total |-> total, output |-> buffer]

\* request() resolved, the checks passed, "complete" was emitted and its
\* listener returned: resolve().  Promise.map then starts one queued file,
\* any of them, unless the returned promise is already settled.
Completed(r, buffer) ==
    /\ Fetching(r)
    /\ Body(buffer) \in Net(files[r].url)
    /\ CheckHashes(buffer, HashesToCheck(r), counter[r]) = NoError
    /\ completed' = Append(completed, CompleteEvent(r, buffer))
    /\ countDownloadedFiles' = countDownloadedFiles + 1
    /\ LET log == Append(events[r], Ev("complete", countDownloadedFiles, "none"))
           drain == promise = "pending" /\ Queued # {}
       IN  \/ /\ drain
              /\ \E q \in Queued :
                   /\ st' = [st EXCEPT ![r] = "resolved", ![q] = "fetching"]
                   /\ counter' = [counter EXCEPT ![q] = 1]
                   /\ events' = [events EXCEPT ![r] = log, ![q] = StartEvents]
              /\ UNCHANGED promise
           \/ /\ ~drain
              /\ st' = [st EXCEPT ![r] = "resolved"]
              /\ events' = [events EXCEPT ![r] = log]
              /\ promise' = IF promise = "pending" /\ AllOthersResolved(r)
                            THEN "resolved" ELSE promise
              /\ UNCHANGED counter
    /\ UNCHANGED <<downloader, files, rejection, failOrder, throwsLeft>>

\* As Completed, but the "complete" listener threw: emit() throws inside
\* the .then handler, after countDownloadedFiles++, and .catch runs.
ListenerThrew(r, buffer) ==
    /\ Fetching(r)
    /\ throwsLeft > 0
    /\ Body(buffer) \in Net(files[r].url)
    /\ CheckHashes(buffer, HashesToCheck(r), counter[r]) = NoError
    /\ completed' = Append(completed, CompleteEvent(r, buffer))
    /\ countDownloadedFiles' = countDownloadedFiles + 1
    /\ throwsLeft' = throwsLeft - 1
    /\ CatchHandler(r, ListenerError(counter[r]),
                    Append(events[r], Ev("complete", countDownloadedFiles, "none")))
    /\ UNCHANGED <<downloader, files>>

Next ==
    \/ Download /\ UNCHANGED <<firstRun, restVars, hashVars, rrVars, pipeVars>>
    \/ \E r \in Ids : RequestFailed(r) /\ UNCHANGED <<firstRun, restVars, hashVars, rrVars, pipeVars>>
    \/ \E r \in Ids : Retry(r) /\ UNCHANGED <<firstRun, restVars, hashVars, rrVars, pipeVars>>
    \/ \E r \in Ids, b \in Buffers :
          HashCheckFailed(r, b) /\ UNCHANGED <<firstRun, restVars, hashVars, rrVars, pipeVars>>
    \/ \E r \in Ids, b \in Buffers :
          Completed(r, b) /\ UNCHANGED <<firstRun, restVars, hashVars, rrVars, pipeVars>>
    \/ \E r \in Ids, b \in Buffers :
          ListenerThrew(r, b) /\ UNCHANGED <<firstRun, restVars, hashVars, rrVars, pipeVars>>

Spec == Init /\ [][Next]_vars

\* Every attempt ends: request() settles (opts.timeout bounds a silent
\* transport) and the timer of setTimeout fires; the event loop runs one
\* pending callback after the other.
Fairness == WF_vars(Next)

FairSpec == Spec /\ Fairness

\* ------------------------------------------------- the hash module alone
\* The buffers and hashDefs the hash functions are called with.
Bytes == MURMUR_SKIP_BYTES \cup {72, 101, 108}
InputBuffers ==
    UNION { [1..n -> Bytes] : n \in 0..MaxBufferLen }
        \cup {<<72, 32, 101, 10, 108>>, <<72, 101, 108>>}
Digests == {murmurhash(b) : b \in Buffers} \cup {sha1(b) : b \in Buffers}
HashLists ==
    {HashValue(d) : d \in Digests}
        \cup {HashArray(l) : l \in UNION { [1..n -> Digests] : n \in 0..2 }}
HashDefs == [id : HashFuncIds \cup {"md5"}, hashes : HashLists]

HashInit ==
    /\ inputBuffer \in InputBuffers
    /\ hashDef \in HashDefs
    /\ hashResult = NoHashResult
    /\ DownloaderIdle
    /\ RetryRequestIdle
    /\ PipelineIdle
    /\ ConstructorIdle
    /\ CurseForgeIdle

\* this.__checkHash(inputBuffer, hashDef)
CheckHashCall ==
    /\ hashResult.op = "none"
    /\ hashResult' = [NoHashResult EXCEPT !.op = "checkHash",
                                          !.error = CheckHash(inputBuffer, hashDef, 1)]
    /\ UNCHANGED <<inputBuffer, hashDef, dlVars, firstRun, restVars, rrVars, pipeVars>>

\* hashes.murmurhash(inputBuffer) and hashes.sha1(inputBuffer)
DigestCall ==
    /\ hashResult.op = "none"
    /\ hashResult' = [NoHashResult EXCEPT !.op = "digest",
                                          !.murmurhash = murmurhash(inputBuffer),
                                          !.sha1 = sha1(inputBuffer)]
    /\ UNCHANGED <<inputBuffer, hashDef, dlVars, firstRun, restVars, rrVars, pipeVars>>

HashNext == CheckHashCall \/ DigestCall

HashSpec == HashInit /\ [][HashNext]_vars

\* ------------------------------------------------------------ retryRequest
\* retryRequest(maxRetries = 5, ...args): request(...args) is made by
\* retry(counter = 0), which starts with counter++.
RetryErrors == {"ETIMEDOUT", "ECONNRESET"}
RetryOptions == 1..MaxRetriesOpt \cup {DefaultMaxRetries}

RetryInit ==
    /\ rrMaxRetries \in RetryOptions
    /\ rrCounter = 0
    /\ rrRequests = 0
    /\ rrErrors = <<>>
    /\ rrPromise = "none"
    /\ rrReason = "none"
    /\ DownloaderIdle
    /\ HashIdle
    /\ PipelineIdle
    /\ ConstructorIdle
    /\ CurseForgeIdle

\* retry(c): counter++ and request(...args)
RetryCall(c) ==
    /\ rrCounter' = c + 1
    /\ rrRequests' = rrRequests + 1

\* retryRequest(rrMaxRetries, ...args): the executor calls retry().
RetryRequest ==
    /\ rrPromise = "none"
    /\ rrPromise' = "pending"
    /\ RetryCall(0)
    /\ UNCHANGED <<rrMaxRetries, rrErrors, rrReason, dlVars, firstRun, restVars, hashVars, pipeVars>>

\* request(...args).then(resolve)
RequestResolved ==
    /\ rrPromise = "pending"
    /\ rrPromise' = "resolved"
    /\ UNCHANGED <<rrMaxRetries, rrCounter, rrRequests, rrErrors, rrReason,
                   dlVars, firstRun, restVars, hashVars, pipeVars>>

\* .catch((err) => { if (counter == maxRetries) reject(err); else retry(); }):
\* retry() is called without an argument, so its counter is the default 0.
CounterOfNextRetry == 0

RequestRejected(err) ==
    /\ rrPromise = "pending"
    /\ rrErrors' = Append(rrErrors, err)
    /\ IF rrCounter = rrMaxRetries
       THEN /\ rrPromise' = "rejected"
            /\ rrReason' = err
            /\ UNCHANGED <<rrCounter, rrRequests>>
       ELSE /\ rrRequests < MaxRequests
            /\ RetryCall(CounterOfNextRetry)
            /\ UNCHANGED <<rrPromise, rrReason>>
    /\ UNCHANGED <<rrMaxRetries, dlVars, firstRun, restVars, hashVars, pipeVars>>

RetryNext ==
    \/ RetryRequest
    \/ RequestResolved
    \/ \E err \in RetryErrors : RequestRejected(err)

RetrySpec == RetryInit /\ [][RetryNext]_vars

\* ----------------------------------------------- download() called again
\* The batch is downloaded a second time by the same DOWNLOADER, from
\* URLs that answer every request alike.
DeterministicBatch == \A i \in 1..Len(files) : Cardinality(Net(files[i].url)) = 1

RerunInit == Init /\ DeterministicBatch

\* The first download() has ended and every request of it is settled;
\* download(files) is about to be called again.
Rerun ==
    /\ promise # "none" /\ InFlight = {}
    /\ ~firstRun.ran
    /\ firstRun' = [ran |-> TRUE,
                    completed |-> {r \in Ids : \E i \in 1..Len(events[r]) :
                                                 events[r][i].ev = "complete"},
                    failed |-> {r \in Ids : st[r] = "rejected"},
                    threw |-> throwsLeft # MaxListenerThrows]
    /\ promise' = "none"
    /\ rejection' = NoRejection
    /\ st' = [r \in Ids |-> "queued"]
    /\ counter' = [r \in Ids |-> 0]
    /\ countDownloadedFiles' = 0
    /\ events' = [r \in Ids |-> <<>>]
    /\ completed' = <<>>
    /\ failOrder' = <<>>
    /\ throwsLeft' = MaxListenerThrows
    /\ UNCHANGED <<downloader, files, restVars, hashVars, rrVars, pipeVars>>

RerunNext == Next \/ Rerun

RerunSpec == RerunInit /\ [][RerunNext]_vars

\* ------------------------------------------------- the constructor alone
\* new ConcurrentRetryDownloader(options): each option may be left out, or
\* be 0.
Option(name, values) == {NoOptions} \cup {name :> v : v \in values}
OptionInputs ==
    {a @@ b @@ c @@ d :
        a \in Option("maxRetries", 0..MaxRetriesOpt),
        b \in Option("concurrency", 0..MaxConcurrencyOpt),
        c \in Option("readTimeout", {0, 1000}),
        d \in Option("checkHashes", BOOLEAN)}

NotConstructed == [maxRetries |-> 0, readTimeout |-> 0, concurrency |-> 0,
                   checkHashes |-> FALSE]

ConstructorInit ==
    /\ options \in OptionInputs
    /\ downloader = NotConstructed
    /\ files = <<>>
    /\ promise = "none"
    /\ rejection = NoRejection
    /\ st = <<>>
    /\ counter = <<>>
    /\ countDownloadedFiles = 0
    /\ events = <<>>
    /\ completed = <<>>
    /\ failOrder = <<>>
    /\ throwsLeft = 0
    /\ firstRun = NoRun
    /\ callbackArgs = <<>>
    /\ HashIdle
    /\ RetryRequestIdle
    /\ PipelineIdle
    /\ CurseForgeIdle

\* new ConcurrentRetryDownloader(options)
Construct ==
    /\ downloader = NotConstructed
    /\ downloader' = Constructor(options)
    /\ UNCHANGED <<files, promise, rejection, st, counter, countDownloadedFiles,
                   events, completed, failOrder, throwsLeft, firstRun,
                   restVars, hashVars, rrVars, pipeVars>>

ConstructorNext == Construct

ConstructorSpec == ConstructorInit /\ [][ConstructorNext]_vars

\* ---------------------------------------------------- downloadAndSaveFiles
\* downloadAndSaveFiles(files, callback): the .then or the .catch handler
\* of DOWNLOADER.download(files) runs and calls callback, with nothing or
\* with args.error.
CallbackArgument == IF promise = "resolved" THEN NoError ELSE rejection.error

DownloadAndSaveFilesSettled ==
    /\ promise \in {"resolved", "rejected"}
    /\ callbackArgs = <<>>
    /\ callbackArgs' = <<CallbackArgument>>
    /\ UNCHANGED <<dlVars, firstRun, options, cfVars, hashVars, rrVars, pipeVars>>

SaveNext == Next \/ DownloadAndSaveFilesSettled

SaveSpec == Init /\ [][SaveNext]_vars

\* --------------------------------------------------------- deployCurseForge
\* deployCurseForge(cb), an async function: each action runs it from one
\* await to the next.
Envs == [CURSEFORGE_API_TOKEN : BOOLEAN, CURSEFORGE_PROJECT_ID : BOOLEAN,
         CLIENT_ARCHIVE : BOOLEAN, SERVER_ARCHIVE : BOOLEAN]
MinecraftVersions == {"1.12.2", "1.7.10"}

\* What CurseForge lists under api/game/versions.
GameVersion1 == [name |-> "1.12.2", id |-> 1]
GameVersion2 == [name |-> "1.7.10", id |-> 2]
VersionLists == {<<>>, <<GameVersion1>>, <<GameVersion2>>,
                 <<GameVersion1, GameVersion2>>}

\* What an awaited request() ends with: a rejection, a body that is no
\* array (request() is called without json: true) or an array of versions;
\* for an upload a rejection or a body whose id is 0 when it has none.
Response(to, kind, id, versions) ==
    [to |-> to, kind |-> kind, id |-> id, versions |-> versions]
VersionsResponses ==
    {Response("versions", "rejected", 0, <<>>), Response("versions", "text", 0, <<>>)}
        \cup {Response("versions", "list", 0, l) : l \in VersionLists}
UploadResponses ==
    {Response("upload", "rejected", 0, <<>>)}
        \cup {Response("upload", "object", id, <<>>) : id \in 0..MaxResponseId}

CurseForgeInit ==
    /\ env \in Envs
    /\ minecraftVersion \in MinecraftVersions
    /\ cfStage = "idle"
    /\ fileIndex = 0
    /\ clientFileID = 0
    /\ uploads = <<>>
    /\ responses = <<>>
    /\ cfCallbacks = <<>>
    /\ DownloaderIdle
    /\ HashIdle
    /\ RetryRequestIdle
    /\ PipelineIdle
    /\ ConstructorIdle

\* [process.env.CLIENT_ARCHIVE, process.env.SERVER_ARCHIVE]
Archives == <<"CLIENT_ARCHIVE", "SERVER_ARCHIVE">>

\* array.find(m => m.name == minecraftVersion): the ids of the matches, in order
RECURSIVE FindVersion(_)
FindVersion(list) ==
    IF list = <<>> THEN <<>>
    ELSE IF Head(list).name = minecraftVersion THEN <<Head(list).id>>
         ELSE FindVersion(Tail(list))

\* return cb(message), or the final cb()
CfReturn(arg) ==
    /\ cfCallbacks' = Append(cfCallbacks, arg)
    /\ cfStage' = "returned"

\* An awaited promise was rejected, or a TypeError was thrown: the async
\* function ends by rejecting its own promise.
CfThrow ==
    /\ cfStage' = "threw"
    /\ UNCHANGED cfCallbacks

\* The body of the loop up to `await request(options)`; parentFileID is set
\* when clientFileID is truthy.
Upload(index, gameVersion, id) ==
    /\ uploads' = Append(uploads, [file |-> Archives[index],
                                   parentFileID |-> id,
                                   gameVersion |-> gameVersion])
    /\ fileIndex' = index
    /\ cfStage' = "upload"
    /\ UNCHANGED cfCallbacks

\* deployCurseForge(cb) up to the first await
DeployCurseForge ==
    /\ cfStage = "idle"
    /\ IF ~env.CURSEFORGE_API_TOKEN
       THEN CfReturn("Environmental variable CURSEFORGE_API_TOKEN is unset.")
       ELSE IF ~env.CURSEFORGE_PROJECT_ID
       THEN CfReturn("Environmental variable CURSEFORGE_PROJECT_ID is unset.")
       ELSE IF ~env.CLIENT_ARCHIVE \/ ~env.SERVER_ARCHIVE
       THEN CfReturn("Environmental variable SERVER_ARCHIVE is unset.")
       ELSE /\ cfStage' = "versions"
            /\ UNCHANGED cfCallbacks
    /\ UNCHANGED <<env, minecraftVersion, fileIndex, clientFileID, uploads, responses>>

\* `await request(versions)` is over: find the version, start the loop.
VersionsAnswered(response) ==
    /\ cfStage = "versions"
    /\ responses' = Append(responses, response)
    /\ IF response.kind # "list"
       THEN CfThrow /\ UNCHANGED <<fileIndex, uploads>>
       ELSE IF FindVersion(response.versions) = <<>>
       THEN CfReturn("Version not found on CurseForge.") /\ UNCHANGED <<fileIndex, uploads>>
       ELSE Upload(1, FindVersion(response.versions)[1], clientFileID)
    /\ UNCHANGED <<env, minecraftVersion, clientFileID>>

\* `await request(options)` of an upload is over.
UploadAnswered(response) ==
    /\ cfStage = "upload"
    /\ responses' = Append(responses, response)
    /\ IF response.kind = "rejected"
       THEN CfThrow /\ UNCHANGED <<fileIndex, uploads, clientFileID>>
       ELSE IF response.id = 0
       THEN /\ CfReturn("Failed to upload: Invalid Response.")
            /\ UNCHANGED <<fileIndex, uploads, clientFileID>>
       ELSE /\ clientFileID' = IF clientFileID = 0 THEN response.id ELSE clientFileID
            /\ IF fileIndex < Len(Archives)
               THEN Upload(fileIndex + 1, uploads[1].gameVersion, clientFileID')
               ELSE CfReturn("none") /\ UNCHANGED <<fileIndex, uploads>>
    /\ UNCHANGED <<env, minecraftVersion>>

CurseForgeNext ==
    \/ DeployCurseForge
         /\ UNCHANGED <<dlVars, firstRun, callbackArgs, options, hashVars, rrVars, pipeVars>>
    \/ \E response \in VersionsResponses : VersionsAnswered(response)
         /\ UNCHANGED <<dlVars, firstRun, callbackArgs, options, hashVars, rrVars, pipeVars>>
    \/ \E response \in UploadResponses : UploadAnswered(response)
         /\ UNCHANGED <<dlVars, firstRun, callbackArgs, options, hashVars, rrVars, pipeVars>>

CurseForgeSpec == CurseForgeInit /\ [][CurseForgeNext]_vars

\* ------------------------------------------------- the series of gulpfile.js
\* exports.default = series(...)
Series == <<"cleanup", "create-folders", "download-forge",
            "download-minecraft-server", "download-mods", "copy-overrides",
            "copy-serverfiles", "launchscripts", "post-cleanup", "zip">>

\* What the tasks find in ./modpack/manifest.json and in the files they
\* fetch: a forge entry among the modLoaders, versionInfo.libraries in the
\* install profile, the Minecraft version in Mojang's list, downloads.server
\* in its manifest, and the number of mods.
Manifests == [forge : BOOLEAN, profile : BOOLEAN, version : BOOLEAN,
              server : BOOLEAN, files : 0..1]

\* How a promise is settled: resolved, or rejected with an error.
Outcomes == {"resolved", "ETIMEDOUT", "mismatch"}

PipelineInit ==
    /\ MODPACK_MANIFEST \in Manifests
    /\ current = 1
    /\ stage = "task"
    /\ seriesState = "running"
    /\ seriesError = "none"
    /\ cbCalls = [t \in 1..Len(Series) |-> 0]
    /\ steps = <<>>
    /\ failedBatch = NoFailure
    /\ DownloaderIdle
    /\ HashIdle
    /\ RetryRequestIdle
    /\ ConstructorIdle
    /\ CurseForgeIdle

Awaiting(name, stg) ==
    /\ seriesState = "running"
    /\ Series[current] = name
    /\ stage = stg

\* series(): the task has signalled completion; the next task is started,
\* or the series has run through.
TaskCompleted ==
    IF current = Len(Series)
    THEN /\ seriesState' = "finished"
         /\ stage' = "idle"
         /\ UNCHANGED <<current, seriesError>>
    ELSE /\ current' = current + 1
         /\ stage' = "task"
         /\ UNCHANGED <<seriesState, seriesError>>

\* cb(err) of the running task: gulp takes the first call only; an error
\* ends the series.
Cb(err) ==
    /\ cbCalls' = [cbCalls EXCEPT ![current] = cbCalls[current] + 1]
    /\ IF cbCalls[current] > 0
       THEN UNCHANGED <<current, stage, seriesState, seriesError>>
       ELSE IF err = "none"
            THEN TaskCompleted
            ELSE /\ seriesState' = "failed"
                 /\ seriesError' = err
                 /\ stage' = "idle"
                 /\ UNCHANGED current

\* An error nobody handles (a stream's "error" event, a throw in an event
\* handler) ends the process.
Crash ==
    /\ seriesState' = "crashed"
    /\ stage' = "idle"
    /\ UNCHANGED <<current, seriesError, cbCalls>>

\* No cb in this callback: the task goes on waiting.
Await(stg) ==
    /\ stage' = stg
    /\ UNCHANGED <<current, seriesState, seriesError, cbCalls>>

\* downloadAndSaveFiles: the argument .then and .catch call callback with.
CallbackArgumentOf(outcome) == IF outcome = "resolved" THEN "none" ELSE outcome

\* downloadAndSaveFiles: DOWNLOADER.download(files) has settled.
BatchFailure(outcome) ==
    IF outcome # "resolved" /\ failedBatch = NoFailure
    THEN [error |-> outcome, at |-> Len(steps)]
    ELSE failedBatch

\* tasks "cleanup", "create-folders", "post-cleanup": work, then cb()
SyncTask ==
    /\ seriesState = "running" /\ stage = "task"
    /\ Series[current] \in {"cleanup", "create-folders", "post-cleanup"}
    /\ steps' = Append(steps, Series[current])
    /\ Cb("none")
    /\ UNCHANGED <<MODPACK_MANIFEST, failedBatch>>

\* tasks "copy-overrides", "copy-serverfiles", "launchscripts", "zip":
\* the stream the task returned has ended.
StreamTask ==
    /\ seriesState = "running" /\ stage = "task"
    /\ Series[current] \in {"copy-overrides", "copy-serverfiles", "launchscripts", "zip"}
    /\ steps' = Append(steps, Series[current])
    /\ TaskCompleted
    /\ UNCHANGED <<MODPACK_MANIFEST, cbCalls, failedBatch>>

\* task "download-forge"
DownloadForge ==
    /\ Awaiting("download-forge", "task")
    /\ IF MODPACK_MANIFEST.forge
       THEN /\ steps' = Append(steps, "fetch the Forge installer")
            /\ Await("installer")
       ELSE /\ Cb("Malformed Forge version in manifest.json.")
            /\ UNCHANGED steps
    /\ UNCHANGED <<MODPACK_MANIFEST, failedBatch>>

\* The callback download-forge hands to downloadAndSaveFiles has no
\* parameter: it starts the extraction however the batch ended.
IgnoresArgument(arg) == TRUE

InstallerSettled(outcome) ==
    /\ Awaiting("download-forge", "installer")
    /\ failedBatch' = BatchFailure(outcome)
    /\ IF IgnoresArgument(CallbackArgumentOf(outcome))
       THEN /\ steps' = Append(steps, "extract the Forge installer")
            /\ Await("extract")
       ELSE /\ Cb(CallbackArgumentOf(outcome))
            /\ UNCHANGED steps
    /\ UNCHANGED MODPACK_MANIFEST

\* "close" of the extraction: read install_profile.json, move the
\* universal jar, fetch the libraries.
ExtractClosed ==
    /\ Awaiting("download-forge", "extract")
    /\ IF MODPACK_MANIFEST.profile
       THEN /\ steps' = Append(steps, "fetch the server libraries")
            /\ Await("libraries")
       ELSE /\ Cb("Malformed Forge manifest file.")
            /\ UNCHANGED steps
    /\ UNCHANGED <<MODPACK_MANIFEST, failedBatch>>

\* The installer is missing or no archive: nobody listens to "error".
ExtractFailed ==
    /\ Awaiting("download-forge", "extract")
    /\ Crash
    /\ UNCHANGED <<MODPACK_MANIFEST, steps, failedBatch>>

\* downloadLibraries(libraries, cb), downloadAndSaveFiles(..., cb): the
\* batch has settled and cb is called.
BatchSettled(outcome) ==
    /\ seriesState = "running"
    /\ \/ Series[current] = "download-forge" /\ stage = "libraries"
       \/ Series[current] = "download-minecraft-server" /\ stage = "server"
       \/ Series[current] = "download-mods" /\ stage = "mods"
    /\ failedBatch' = BatchFailure(outcome)
    /\ Cb(CallbackArgumentOf(outcome))
    /\ UNCHANGED <<MODPACK_MANIFEST, steps>>

\* task "download-minecraft-server"
DownloadMinecraftServer ==
    /\ Awaiting("download-minecraft-server", "task")
    /\ steps' = Append(steps, "fetch the version manifest")
    /\ Await("versions")
    /\ UNCHANGED <<MODPACK_MANIFEST, failedBatch>>

\* retryRequest(versions).then(...): no .catch, a rejection is lost.
VersionsSettled(outcome) ==
    /\ Awaiting("download-minecraft-server", "versions")
    /\ IF outcome # "resolved"
       THEN /\ Await("never")
            /\ UNCHANGED steps
       ELSE IF MODPACK_MANIFEST.version
            THEN /\ steps' = Append(steps, "fetch the manifest of the version")
                 /\ Await("version")
            ELSE /\ Cb("Couldn't find the version in the version manifest.")
                 /\ UNCHANGED steps
    /\ UNCHANGED <<MODPACK_MANIFEST, failedBatch>>

\* retryRequest(version.url).then(...).catch(cb)
VersionSettled(outcome) ==
    /\ Awaiting("download-minecraft-server", "version")
    /\ IF outcome # "resolved"
       THEN /\ Cb(outcome)
            /\ UNCHANGED steps
       ELSE IF MODPACK_MANIFEST.server
            THEN /\ steps' = Append(steps, "fetch the server jar")
                 /\ Await("server")
            ELSE /\ Cb("No server jar file found")
                 /\ UNCHANGED steps
    /\ UNCHANGED <<MODPACK_MANIFEST, failedBatch>>

\* task "download-mods"
DownloadMods ==
    /\ Awaiting("download-mods", "task")
    /\ steps' = Append(steps, "fetch the mod infos")
    /\ Await("infos")
    /\ UNCHANGED <<MODPACK_MANIFEST, failedBatch>>

\* Promise.map(files, retryRequest).then(fileInfos => ...): no .catch.  With
\* a mod in the list the mapping of fileInfos reads modInfo, which is not
\* defined: the handler throws before downloadAndSaveFiles is called.
ModInfosSettled(outcome) ==
    /\ Awaiting("download-mods", "infos")
    /\ IF outcome # "resolved" \/ MODPACK_MANIFEST.files > 0
       THEN /\ Await("never")
            /\ UNCHANGED steps
       ELSE /\ steps' = Append(steps, "fetch the mods")
            /\ Await("mods")
    /\ UNCHANGED <<MODPACK_MANIFEST, failedBatch>>

PipelineNext ==
    \/ SyncTask /\ UNCHANGED <<dlVars, firstRun, restVars, hashVars, rrVars>>
    \/ StreamTask /\ UNCHANGED <<dlVars, firstRun, restVars, hashVars, rrVars>>
    \/ DownloadForge /\ UNCHANGED <<dlVars, firstRun, restVars, hashVars, rrVars>>
    \/ \E o \in Outcomes : InstallerSettled(o) /\ UNCHANGED <<dlVars, firstRun, restVars, hashVars, rrVars>>
    \/ ExtractClosed /\ UNCHANGED <<dlVars, firstRun, restVars, hashVars, rrVars>>
    \/ ExtractFailed /\ UNCHANGED <<dlVars, firstRun, restVars, hashVars, rrVars>>
    \/ \E o \in Outcomes : BatchSettled(o) /\ UNCHANGED <<dlVars, firstRun, restVars, hashVars, rrVars>>
    \/ DownloadMinecraftServer /\ UNCHANGED <<dlVars, firstRun, restVars, hashVars, rrVars>>
    \/ \E o \in Outcomes : VersionsSettled(o) /\ UNCHANGED <<dlVars, firstRun, restVars, hashVars, rrVars>>
    \/ \E o \in Outcomes : VersionSettled(o) /\ UNCHANGED <<dlVars, firstRun, restVars, hashVars, rrVars>>
    \/ DownloadMods /\ UNCHANGED <<dlVars, firstRun, restVars, hashVars, rrVars>>
    \/ \E o \in Outcomes : ModInfosSettled(o) /\ UNCHANGED <<dlVars, firstRun, restVars, hashVars, rrVars>>

PipelineSpec == PipelineInit /\ [][PipelineNext]_vars


\* ================================================================ claims
EvCount(r, ev) == Cardinality({i \in 1..Len(events[r]) : events[r][i].ev = ev})
Attempts(r)    == EvCount(r, "request")
Retries(r)     == EvCount(r, "retry")
Started(r)     == EvCount(r, "start") > 0

\* C1: the requests that have emitted "start" and are not yet finished
\* (neither resolved after their complete event nor failed terminally)
\* never number more than the concurrency bound of the downloader.
StartedUnfinished == {r \in Ids : Started(r) /\ st[r] \notin {"resolved", "rejected"}}
C1_ConcurrencyBound == Cardinality(StartedUnfinished) <= downloader.concurrency
\* the window is full after it slid: a file finished and a queued one took its place
C1_Witness ==
    /\ total > downloader.concurrency
    /\ downloader.concurrency >= 2
    /\ Cardinality(StartedUnfinished) = downloader.concurrency
    /\ \E r \in Ids : st[r] = "resolved"

\* C2: no request is fetched more than maxRetries times; a request whose
\* every attempt failed in the transport is rejected exactly when its
\* maxRetries-th attempt has failed, after maxRetries - 1 retry events.
OnlyTransportFailures(r) ==
    \A i \in 1..Len(events[r]) :
        /\ events[r][i].ev \in {"retry", "reject"} => events[r][i].err = "transport"
        /\ events[r][i].ev # "complete"
FailedAttempts(r) == EvCount(r, "retry") + EvCount(r, "reject")
C2_RetryBound ==
    \A r \in Ids :
        /\ Attempts(r) <= downloader.maxRetries
        /\ OnlyTransportFailures(r) =>
             /\ Retries(r) <= downloader.maxRetries - 1
             /\ (FailedAttempts(r) = downloader.maxRetries) <=> (st[r] = "rejected")
             /\ st[r] = "rejected" =>
                  /\ Attempts(r) = downloader.maxRetries
                  /\ Retries(r) = downloader.maxRetries - 1
C2_Witness ==
    \E r \in Ids :
        /\ st[r] = "rejected"
        /\ OnlyTransportFailures(r)
        /\ downloader.maxRetries >= 2
        /\ Retries(r) = downloader.maxRetries - 1

\* C3: with checkHashes on, the payload of every complete event satisfies
\* every hash constraint of its file: its digest under the constraint's
\* algorithm is one of the accepted values.
Accepted(def) ==
    {def.hashes.items[i] : i \in 1..Len(def.hashes.items)}
Satisfies(buffer, def) ==
    /\ def.id \in HashFuncIds
    /\ hashFuncs(def.id, buffer) \in Accepted(def)
SatisfiesAll(buffer, fileDef) ==
    \A i \in 1..Len(fileDef.hashes) : Satisfies(buffer, fileDef.hashes[i])
C3_CompleteOnlyVerified ==
    downloader.checkHashes =>
        \A k \in 1..Len(completed) :
            SatisfiesAll(completed[k].output, files[completed[k].file])
\* a file with two constraints completed after an attempt of it was refused
C3_Witness ==
    /\ downloader.checkHashes
    /\ \E k \in 1..Len(completed) :
         /\ Len(files[completed[k].file].hashes) = 2
         /\ \E i \in 1..Len(events[completed[k].file]) :
              events[completed[k].file][i].err = "mismatch"

\* C4: the k-th complete event of a batch carries index k - 1, and once
\* all N requests have completed the indices issued are exactly 0..N-1.
CompleteIndices == {completed[k].index : k \in 1..Len(completed)}
C4_Ordinals ==
    /\ \A k \in 1..Len(completed) : completed[k].index = k - 1
    /\ (promise # "none" /\ \A r \in Ids : st[r] = "resolved")
         => CompleteIndices = 0..(total - 1)

\* C5: when nothing is in flight any more, every request whose URL always
\* delivers a payload that satisfies its constraints has emitted complete,
\* whatever happened to the other requests of the batch.
Done == promise # "none" /\ InFlight = {}
AlwaysGood(r) ==
    \A resp \in Net(files[r].url) : resp.ok /\ SatisfiesAll(resp.body, files[r])
C5_GoodRequestsComplete ==
    Done => \A r \in Ids : AlwaysGood(r) => EvCount(r, "complete") > 0

\* C6: the promise of download() is rejected exactly when some request
\* was rejected; it is rejected with the first request rejected and the
\* error of that request's last attempt.
LastEvent(r) == events[r][Len(events[r])]
C6_FirstFailure ==
    /\ (promise = "rejected") <=> (failOrder # <<>>)
    /\ promise = "rejected" =>
         /\ rejection.fileDef = failOrder[1]
         /\ rejection.error.at = Attempts(rejection.fileDef)
         /\ LastEvent(rejection.fileDef) =
              Ev("reject", Attempts(rejection.fileDef), rejection.error.kind)
C6_Witness ==
    /\ promise = "rejected"
    /\ Len(failOrder) >= 2
    /\ rejection.error.at >= 2

\* C7: the requests that are in flight when the batch has failed still
\* reach their own end: a point comes where each of them is resolved, after
\* its complete event, or rejected, and none is in flight any more.
C7_SiblingsFinish ==
    (promise = "rejected") ~>
        (InFlight = {} /\ \A r \in Ids : st[r] \in {"queued", "resolved", "rejected"})
\* a request failed terminally after the batch had already failed, and
\* another one completed
C7_Witness ==
    /\ promise = "rejected"
    /\ Len(failOrder) >= 2
    /\ \E r \in Ids : r # rejection.fileDef /\ st[r] = "resolved"

\* C8: when every request of the batch is resolved the promise of
\* download() is fulfilled, and it is fulfilled only when each of the N
\* requests has emitted its complete event.
C8_ResolvesAfterAll ==
    /\ (promise # "none" /\ \A r \in Ids : st[r] = "resolved") => promise = "resolved"
    /\ promise = "resolved" =>
         /\ \A r \in Ids : EvCount(r, "complete") > 0
         /\ Len(completed) >= total
C8_Witness ==
    /\ promise = "resolved"
    /\ total > downloader.concurrency
    /\ downloader.concurrency >= 2

\* C9: a hash mismatch ends its request: the mismatch is never answered
\* with a retry event and no request follows it.
NeverRetried(kind) ==
    \A r \in Ids : \A i \in 1..Len(events[r]) :
        events[r][i].err = kind =>
            /\ events[r][i].ev = "reject"
            /\ \A j \in (i + 1)..Len(events[r]) : events[r][j].ev # "request"
C9_MismatchTerminal == NeverRetried("mismatch")

\* C10: an unknown hash algorithm ends its request at once: no retry
\* event and no second request for it.
C10_UnknownAlgorithmTerminal ==
    /\ NeverRetried("nohashfunc")
    /\ \A r \in Ids :
         (\E i \in 1..Len(events[r]) : events[r][i].err = "nohashfunc")
            => Attempts(r) = 1 /\ Retries(r) = 0

\* C11: retryRequest(N, ...) makes at most N requests, and when all of
\* them failed it is rejected with the error of the last one.
C11_RetryRequestBound ==
    /\ rrRequests <= rrMaxRetries
    /\ Len(rrErrors) = rrMaxRetries =>
          rrPromise = "rejected" /\ rrReason = rrErrors[Len(rrErrors)]

\* C12: a request that has emitted anything has emitted "start" exactly
\* once, as its first event: before every retry, complete and terminal
\* failure of that request.
C12_StartFirst ==
    \A r \in Ids :
        /\ EvCount(r, "start") <= 1
        /\ events[r] # <<>> => events[r][1].ev = "start"
        /\ st[r] # "queued" => EvCount(r, "start") = 1
\* a request went through a retry, another completed, each after its start
C12_Witness ==
    \E r, x \in Ids :
        /\ r # x
        /\ EvCount(r, "retry") > 0 /\ EvCount(r, "reject") > 0
        /\ EvCount(x, "complete") > 0

\* C13: the retry events of a request carry 1, 2, ..., k in this order;
\* retry k directly follows the failure of attempt k (request k, with the
\* complete event of a listener that threw in between) and what follows
\* it is request k + 1.
RetryPositions(r) == {i \in 1..Len(events[r]) : events[r][i].ev = "retry"}
C14_CheckHashContract ==
    [][(hashResult.op = "none" /\ hashResult'.op = "checkHash") =>
          /\ hashResult'.error = NoError <=>
                (hashDef.id \in {"murmurhash", "sha1"}
                 /\ hashFuncs(hashDef.id, inputBuffer) \in Accepted(hashDef))
          /\ (hashDef.id \in {"murmurhash", "sha1"} /\ hashResult'.error # NoError)
                => hashResult'.error.kind = "mismatch"
          /\ inputBuffer' = inputBuffer /\ hashDef' = hashDef]_vars
\* a list of two digests accepted the buffer through its second entry
C14_Witness ==
    /\ hashResult.op = "checkHash" /\ hashResult.error = NoError
    /\ hashDef.hashes.isArray /\ Len(hashDef.hashes.items) = 2
    /\ hashDef.hashes.items[1] # hashFuncs(hashDef.id, inputBuffer)

\* C15: the fingerprint of a buffer is the murmurhashV2 digest of the buffer
\* without its bytes 9, 10, 13 and 32, so buffers that differ only in such
\* bytes have one fingerprint; the sha1 digest is taken over all the bytes.
WithoutWhitespace(buf) == SelectSeq(buf, LAMBDA x : x \notin {9, 10, 13, 32})
C15_FingerprintSkipsWhitespace ==
    hashResult.op = "digest" =>
        /\ hashResult.murmurhash = murmurhashV2(WithoutWhitespace(inputBuffer), 1)
        /\ hashResult.murmurhash = murmurhash(WithoutWhitespace(inputBuffer))
        /\ hashResult.sha1 = sha1lib(inputBuffer)
        /\ WithoutWhitespace(inputBuffer) # inputBuffer =>
              hashResult.sha1 # sha1(WithoutWhitespace(inputBuffer))
        /\ murmurhash(<<72, 32, 101, 10, 108>>) = murmurhash(<<72, 101, 108>>)
C15_Witness ==
    /\ hashResult.op = "digest"
    /\ inputBuffer = <<72, 32, 101, 10, 108>>
    /\ hashResult.murmurhash = murmurhash(<<72, 101, 108>>)
    /\ hashResult.sha1 # sha1(<<72, 101, 108>>)

\* C16: when download() of a batch whose URLs answer every request alike
\* has ended a second time, with no listener failure in either run, the
\* requests that completed and the requests that failed are those of the
\* first run.
\* (At most one request waits for a slot, so the order in which
\* Promise.map serves its queue plays no part.)
C16_SameOutcome ==
    (/\ firstRun.ran /\ ~firstRun.threw
     /\ promise # "none" /\ InFlight = {}
     /\ throwsLeft = MaxListenerThrows
     /\ DeterministicBatch
     /\ total <= downloader.concurrency + 1) =>
        /\ firstRun.completed = {r \in Ids : EvCount(r, "complete") > 0}
        /\ firstRun.failed = {r \in Ids : st[r] = "rejected"}

\* C17: once a download batch of a step has failed, the series has ended
\* with the error of that batch and no processing step has run since.
C17_HaltsOnBatchFailure ==
    failedBatch # NoFailure =>
        /\ seriesState = "failed"
        /\ seriesError = failedBatch.error
        /\ Len(steps) = failedBatch.at

\* C18: with checkHashes off, or for a file without hashes, no hash error
\* is ever raised: a fetched payload can only lead to the complete event,
\* which carries the payload as fetched.
Unchecked(r) == ~downloader.checkHashes \/ ~files[r].hasHashes
C18_NoVerification ==
    /\ \A r \in Ids : Unchecked(r) =>
         /\ \A i \in 1..Len(events[r]) : events[r][i].err \notin {"mismatch", "nohashfunc"}
         /\ st[r] = "fetching" =>
              \A b \in Buffers : Body(b) \in Net(files[r].url) =>
                  /\ ~ENABLED HashCheckFailed(r, b)
                  /\ ENABLED Completed(r, b)
    /\ \A k \in 1..Len(completed) :
         Body(completed[k].output) \in Net(files[completed[k].file].url)
\* with checkHashes off a file with an unknown algorithm and a file whose
\* payload fails a constraint have both completed
C18_Witness ==
    /\ ~downloader.checkHashes
    /\ \E k \in 1..Len(completed) : files[completed[k].file].url = "unk"
    /\ \E k \in 1..Len(completed) :
         /\ files[completed[k].file].url = "two"
         /\ ~SatisfiesAll(completed[k].output, files[completed[k].file])

\* C19: the counter of a request changes only when that request is
\* started (to 1) or starts its next attempt (by 1), and a request is
\* rejected only after maxRetries attempts of its own.
OwnAttempt(r) ==
    \/ st[r] = "queued" /\ st'[r] = "fetching" /\ counter'[r] = 1
    \/ st[r] = "waiting" /\ st'[r] = "fetching" /\ counter'[r] = counter[r] + 1
C19_CounterIsLocal ==
    [][\A r \in Ids :
          /\ counter'[r] # counter[r] => OwnAttempt(r)
          /\ st'[r] = "rejected" => Attempts(r) = downloader.maxRetries]_vars
\* one request is on its last attempt while a sibling is still on its first
C19_Witness ==
    \E r, x \in Ids :
        /\ downloader.maxRetries >= 2
        /\ counter[r] = downloader.maxRetries /\ st[r] = "rejected"
        /\ counter[x] = 1 /\ st[x] = "fetching"

\* C20: a request has at most one outcome: at most one complete event,
\* and after its complete event neither a retry, nor another request, nor
\* a terminal failure.
C20_SingleOutcome ==
    \A r \in Ids :
        /\ EvCount(r, "complete") <= 1
        /\ \A i \in 1..Len(events[r]) :
             events[r][i].ev = "complete" => i = Len(events[r])

\* C21: the cb of a download task is called at most once, no task is left
\* at a point where nothing will call its cb any more (a rejection nobody
\* catches, an error nobody handles), and a task whose batch failed has
\* called cb with an error.
DownloadTasks == {t \in 1..Len(Series) : Series[t] \in
                     {"download-forge", "download-minecraft-server", "download-mods"}}
C21_CallbackExactlyOnce ==
    seriesState # "idle" =>
        /\ \A t \in DownloadTasks : cbCalls[t] <= 1
        /\ \A t \in DownloadTasks : t < current => cbCalls[t] = 1
        /\ stage # "never"
        /\ seriesState # "crashed"
        /\ (failedBatch # NoFailure /\ cbCalls[current] = 1) => seriesState = "failed"

\* C22: download() of an empty batch is fulfilled at once, no event is
\* emitted for it, and the callback of downloadAndSaveFiles is then due
\* and is called once, without an error.
C22_EmptyBatch ==
    (total = 0 /\ promise # "none") =>
        /\ promise = "resolved"
        /\ events = <<>> /\ completed = <<>> /\ failOrder = <<>>
        /\ countDownloadedFiles = 0
        /\ callbackArgs = <<>> => ENABLED DownloadAndSaveFilesSettled
        /\ callbackArgs \in {<<>>, <<NoError>>}
C22_Witness ==
    total = 0 /\ promise = "resolved" /\ callbackArgs = <<NoError>>

\* C23: a downloader constructed without options has maxRetries 5,
\* concurrency 5, checkHashes true and a read timeout of 30000 ms; so has
\* every option that is left out.
C23_Defaults ==
    downloader # NotConstructed =>
        /\ options = NoOptions =>
              downloader = [maxRetries |-> 5, readTimeout |-> 30000,
                            concurrency |-> 5, checkHashes |-> TRUE]
        /\ "maxRetries" \notin DOMAIN options => downloader.maxRetries = 5
        /\ "concurrency" \notin DOMAIN options => downloader.concurrency = 5
        /\ "readTimeout" \notin DOMAIN options => downloader.readTimeout = 30000
        /\ "checkHashes" \notin DOMAIN options => downloader.checkHashes
C23_Witness ==
    /\ options = NoOptions
    /\ downloader # NotConstructed
    /\ downloader.concurrency = 5 /\ downloader.maxRetries = 5
\* C23 as stated: constructed without options the concurrency is 10.
C23_DefaultsAsStated ==
    (downloader # NotConstructed /\ options = NoOptions) =>
        downloader = [maxRetries |-> 5, readTimeout |-> 30000,
                      concurrency |-> 10, checkHashes |-> TRUE]

\* C24: the client archive is uploaded first and the server archive
\* second; the second upload is made only after the first was answered
\* with an id and carries that id as parentFileID; an answer without an id
\* ends the uploads and cb gets an error; cb is called at most once, and
\* exactly once when the function has ended.
AnswersToUploads == SelectSeq(responses, LAMBDA a : a.to = "upload")
C24_DeployCurseForge ==
    /\ Len(uploads) <= 2
    /\ Len(uploads) >= 1 => uploads[1].file = "CLIENT_ARCHIVE"
    /\ Len(uploads) = 2 =>
          /\ uploads[2].file = "SERVER_ARCHIVE"
          /\ AnswersToUploads[1].kind = "object" /\ AnswersToUploads[1].id # 0
          /\ uploads[2].parentFileID = AnswersToUploads[1].id
    /\ \A i \in 1..Len(AnswersToUploads) :
          (AnswersToUploads[i].kind = "object" /\ AnswersToUploads[i].id = 0) =>
              /\ Len(uploads) = i
              /\ cfCallbacks = <<"Failed to upload: Invalid Response.">>
    /\ Len(cfCallbacks) <= 1
    /\ cfStage \in {"returned", "threw"} => Len(cfCallbacks) = 1

====
